---- MODULE Spec2Model ----
(***************************************************************************)
(* lock.py: the line assembler (_iter_candidate_lines), the candidate      *)
(* parser (_iter_candidates, _iter_parents), the lock graph builder        *)
(* (_build_lock), the writer (_write_lock) and main.                       *)
(*                                                                         *)
(* Text is a sequence of one-character strings, so that stripping,         *)
(* splitting and joining are computed character by character as the        *)
(* Python string methods compute them.                                     *)
(***************************************************************************)
EXTENDS Integers, Sequences, FiniteSets, TLC

VARIABLES
    lines,       \* the physical lines handed to _iter_candidates
    idx,         \* how many physical lines the `for line in lines` loop has taken
    curr,        \* _iter_candidate_lines: the accumulator
    parts,       \* history: indices of the physical lines appended to curr
    emitted,     \* history: the logical lines yielded so far, with their parts
    locals,      \* _iter_candidates: name, version, parents (bound or not)
    candidates,  \* the Candidates yielded so far / the list given to _build_lock
    pc,          \* where the run is
    err,         \* the exception that ended the run, "none" if none
    lock,        \* _build_lock: the dict under construction
    bi,          \* _build_lock: index of the candidate the current pass is at
    first,       \* the serialized document of an earlier build of the same list
    rc,          \* exit status of the resolver process
    disk,        \* the lock file at the output path
    prior,       \* history: the lock file as it was when main started
    written      \* _write_lock: chunks json.dump has handed to the file object

vars == <<lines, idx, curr, parts, emitted, locals, candidates, pc, err,
          lock, bi, first, rc, disk, prior, written>>

parseVars == <<lines, idx, curr, parts, emitted, locals>>
buildVars == <<lock, bi, first>>
mainVars  == <<rc, disk, prior, written>>

----------------------------------------------------------------------------
(* Bounds of the model.                                                    *)

MaxLines == 3     \* physical lines in an input drawn from PhysLines
MaxCuts  == 2     \* continuation breaks put into one requirement text
MaxCands == 3     \* Candidates in a list given to _build_lock
MaxOut   == 2     \* physical lines in the resolver output of a run of main

----------------------------------------------------------------------------
(* Python str methods, on sequences of characters.                         *)

Whitespace == {" "}

Min(S) == CHOOSE x \in S : \A y \in S : x <= y

RECURSIVE LStrip(_)
LStrip(s) ==
    IF s = <<>> THEN s
    ELSE IF Head(s) \in Whitespace THEN LStrip(Tail(s)) ELSE s

RECURSIVE RStrip(_)
RStrip(s) ==
    IF s = <<>> THEN s
    ELSE IF s[Len(s)] \in Whitespace THEN RStrip(SubSeq(s, 1, Len(s) - 1)) ELSE s

Strip(s) == RStrip(LStrip(s))

StartsWith(s, p) == Len(s) >= Len(p) /\ SubSeq(s, 1, Len(p)) = p

EndsWith(s, p) == Len(s) >= Len(p) /\ SubSeq(s, Len(s) - Len(p) + 1, Len(s)) = p

\* str.find: the index of the first occurrence of sep in s, 0 when there is none
Find(s, sep) ==
    LET I == {i \in 1..(Len(s) - Len(sep) + 1) : SubSeq(s, i, i + Len(sep) - 1) = sep}
    IN  IF I = {} THEN 0 ELSE Min(I)

\* str.partition(sep): <<before, after>>; the whole string and "" when sep is absent
Partition(s, sep) ==
    LET i == Find(s, sep)
    IN  IF i = 0 THEN <<s, <<>>>>
        ELSE <<SubSeq(s, 1, i - 1), SubSeq(s, i + Len(sep), Len(s))>>

\* str.split(sep, 1) and re.split(sep, s, 1): one or two pieces
SplitOnce(s, sep) ==
    LET i == Find(s, sep)
    IN  IF i = 0 THEN <<s>>
        ELSE <<SubSeq(s, 1, i - 1), SubSeq(s, i + Len(sep), Len(s))>>

\* re.split(sep, s): every piece, empty pieces included
RECURSIVE SplitAll(_, _)
SplitAll(s, sep) ==
    LET i == Find(s, sep)
    IN  IF i = 0 THEN <<s>>
        ELSE <<SubSeq(s, 1, i - 1)>> \o SplitAll(SubSeq(s, i + Len(sep), Len(s)), sep)

\* str.split(): the maximal runs of non-whitespace characters
RECURSIVE SplitWs(_)
SplitWs(s) ==
    LET t == LStrip(s)
        W == {i \in 1..Len(t) : t[i] \in Whitespace}
    IN  IF t = <<>> THEN <<>>
        ELSE IF W = {} THEN <<t>>
        ELSE <<SubSeq(t, 1, Min(W) - 1)>> \o SplitWs(SubSeq(t, Min(W), Len(t)))

----------------------------------------------------------------------------
(* packaging.utils.canonicalize_name: re.sub(r"[-_.]+", "-", name).lower() *)

Separators == {"-", "_", "."}

Lower(c) ==
    CASE c = "A" -> "a"
      [] c = "B" -> "b"
      [] OTHER   -> c

RECURSIVE canonicalize_name(_)
canonicalize_name(s) ==
    IF s = <<>> THEN <<>>
    ELSE IF Head(s) \in Separators
         THEN IF Len(s) > 1 /\ s[2] \in Separators
              THEN canonicalize_name(Tail(s))
              ELSE <<"-">> \o canonicalize_name(Tail(s))
         ELSE <<Lower(Head(s))>> \o canonicalize_name(Tail(s))

----------------------------------------------------------------------------
(* packaging.version.Version, for release-only versions N(.N)*: the parsed *)
(* value is the tuple of release numbers, and str() prints them without    *)
(* leading zeros.  Any other text raises InvalidVersion.                   *)

Digits == {"0", "1", "2"}

DigitVal(c) ==
    CASE c = "0" -> 0
      [] c = "1" -> 1
      [] c = "2" -> 2

DigitChar(n) ==
    CASE n = 0 -> "0"
      [] n = 1 -> "1"
      [] n = 2 -> "2"
      [] n = 3 -> "3"
      [] n = 4 -> "4"
      [] n = 5 -> "5"
      [] n = 6 -> "6"
      [] n = 7 -> "7"
      [] n = 8 -> "8"
      [] n = 9 -> "9"

RECURSIVE ParseInt(_)
ParseInt(s) ==
    IF s = <<>> THEN 0
    ELSE ParseInt(SubSeq(s, 1, Len(s) - 1)) * 10 + DigitVal(s[Len(s)])

RECURSIVE IntStr(_)
IntStr(n) ==
    IF n < 10 THEN <<DigitChar(n)>>
    ELSE IntStr(n \div 10) \o <<DigitChar(n % 10)>>

IsNumber(s) == s # <<>> /\ \A i \in 1..Len(s) : s[i] \in Digits

ValidVersion(s) ==
    LET ps == SplitAll(Strip(s), <<".">>)
    IN  \A i \in 1..Len(ps) : IsNumber(ps[i])

Version(s) ==
    LET ps == SplitAll(Strip(s), <<".">>)
    IN  [i \in 1..Len(ps) |-> ParseInt(ps[i])]

RECURSIVE VersionStr(_)
VersionStr(v) ==
    IF Len(v) = 1 THEN IntStr(v[1])
    ELSE IntStr(v[1]) \o <<".">> \o VersionStr(Tail(v))

----------------------------------------------------------------------------
(* Hash and Candidate.                                                     *)

Hash(alg, val) == [alg |-> alg, val |-> val]

\* Hash.__str__
HashStr(h) == h.alg \o <<":">> \o h.val

Candidate(name, version, hashes, parents) ==
    [name |-> name, version |-> version, hashes |-> hashes, parents |-> parents]

----------------------------------------------------------------------------
(* _iter_candidate_lines: what the loop body does with one physical line.  *)

Backslash == <<"\\">>
CommentMark == "#"

\* the continuation marker noticed but left in the text
StripLineKeepMarker(line) ==
    LET l == Strip(line)
    IN  IF EndsWith(l, Backslash)
        THEN [skip |-> FALSE, cont |-> TRUE, text |-> l]
        ELSE [skip |-> l = <<>>, cont |-> FALSE, text |-> l]

\* lines 42-50: the text the physical line adds to the accumulator, and
\* whether the line continues (cont)
StripLine(line) ==
    LET l == Strip(line)
    IN  IF EndsWith(l, Backslash)
        THEN [skip |-> FALSE, cont |-> TRUE, text |-> SubSeq(l, 1, Len(l) - 1)]
        ELSE [skip |-> l = <<>>, cont |-> FALSE, text |-> l]

\* the test of line 52 without its comment half
EmittableAnyText(c) == c # <<>>

\* line 52: the test that lets an assembled line out
Emittable(c) == c # <<>> /\ c[1] # CommentMark

----------------------------------------------------------------------------
(* _iter_parents and the body of _iter_candidates for one logical line.    *)

HashOption == <<"-", "-", "h", "a", "s", "h", "=">>
Via == <<"v", "i", "a">>
FromFile == <<"-", "r">>

Unbound(v) == [bound |-> FALSE, val |-> v]
Bound(v) == [bound |-> TRUE, val |-> v]

NoLocals == [name |-> Unbound(<<>>), version |-> Unbound(<<>>), parents |-> Unbound({})]

\* lines 57-62, collected into the set of line 83
IterParents(comment) ==
    LET ps == SplitAll(comment, <<",", " ">>)
    IN  {IF StartsWith(ps[i], FromFile) THEN <<>> ELSE canonicalize_name(ps[i])
            : i \in 1..Len(ps)}

\* lines 72-78: one whitespace-separated part of the code part of the line
ParsePart(part, st) ==
    IF StartsWith(part, HashOption)
    THEN LET av == SplitOnce(SplitOnce(part, <<"=">>)[2], <<":">>)
         IN  IF Len(av) # 2 THEN [st EXCEPT !.err = "ValueError"]
             ELSE [st EXCEPT !.hashes = Append(@, Hash(av[1], av[2]))]
    ELSE LET nv == SplitOnce(part, <<"=", "=">>)
         IN  IF Len(nv) # 2
             THEN [st EXCEPT !.parsed = TRUE, !.err = "ValueError"]
             ELSE IF ~ValidVersion(nv[2])
             THEN [st EXCEPT !.parsed = TRUE, !.name = Bound(nv[1]),
                             !.err = "InvalidVersion"]
             ELSE [st EXCEPT !.parsed = TRUE, !.name = Bound(nv[1]),
                             !.version = Bound(Version(nv[2]))]

\* line 71: the loop over the parts, ended by the first exception
RECURSIVE ParseParts(_, _)
ParseParts(ps, st) ==
    IF ps = <<>> \/ st.err # "none" THEN st
    ELSE ParseParts(Tail(ps), ParsePart(Head(ps), st))

\* the assert statement compiled away: nothing is checked
AssertStripped(st) == TRUE

\* line 79: assert parsed
AssertParsed(st) == st.parsed

\* lines 81-83: the parents after the comment has been looked at
ViaParents(comment, old) ==
    LET c == LStrip(comment)
    IN  IF StartsWith(c, Via)
        THEN Bound(IterParents(Strip(SplitOnce(SubSeq(c, 4, Len(c)), <<CommentMark>>)[1])))
        ELSE old

\* lines 67-85 for one logical line, with the locals the previous iteration left
ParseLine(raw_line, loc) ==
    LET lc == Partition(raw_line, <<CommentMark>>)
        st == ParseParts(SplitWs(lc[1]),
                         [err |-> "none", hashes |-> <<>>, parsed |-> FALSE,
                          name |-> loc.name, version |-> loc.version])
        parents == ViaParents(lc[2], loc.parents)
        after == [name |-> st.name, version |-> st.version, parents |-> parents]
        e == IF st.err # "none" THEN st.err
             ELSE IF ~AssertParsed(st) THEN "AssertionError"
             ELSE IF ~(st.name.bound /\ st.version.bound) THEN "UnboundLocalError"
             ELSE IF ~parents.bound THEN "UnboundLocalError"
             ELSE "none"
    IN  [err |-> e, locals |-> after,
         cand |-> Candidate(st.name.val, st.version.val, st.hashes, parents.val)]

----------------------------------------------------------------------------
(* Inputs of the parser.                                                   *)

PhysLines == {
    <<"a", "=", "=", "1", " ", "#", " ", "v", "i", "a", " ", "b">>,
    <<"B", "=", "=", "0", "2">>,
    <<"-", "-", "h", "a", "s", "h", "=", "s", ":", "x">>,
    <<"#", " ", "c">>,
    <<"a", "=", "=", "1", " ", "\\">>,
    <<"-", "-", "h", "a", "s", "h", "=", "s", ":", "x", " ", "\\">>,
    <<"#", " ", "v", "i", "a", " ", "-", "r", " ", "q", ",", " ", "A", "_", "b">>,
    <<" ">>,
    <<"#", " ", "c", " ", "\\">>,
    <<"-", "-", "h", "a", "s", "h", "=", "s">>,
    <<"b">> }

RECURSIVE SeqsUpTo(_, _)
SeqsUpTo(S, n) ==
    IF n = 0 THEN {<<>>}
    ELSE LET R == SeqsUpTo(S, n - 1)
         IN  R \cup {Append(r, x) : r \in {q \in R : Len(q) = n - 1}, x \in S}

ReqTexts == {
    <<"a", "=", "=", "1", " ", "-", "-", "h", "a", "s", "h", "=", "s", ":", "x", " ", "#", " ", "v", "i", "a", " ", "b">>,
    <<"B", "=", "=", "0", "2", " ", "#", " ", "v", "i", "a", " ", "-", "r", " ", "q">> }

\* text cut at the positions of cuts, every piece but the last given a
\* trailing backslash
RECURSIVE SplitAt(_, _, _)
SplitAt(text, cuts, from) ==
    LET C == {c \in cuts : c >= from}
    IN  IF C = {} THEN <<SubSeq(text, from + 1, Len(text))>>
        ELSE <<SubSeq(text, from + 1, Min(C)) \o Backslash>>
             \o SplitAt(text, cuts \ {Min(C)}, Min(C))

\* the sets of at most n cut positions in a text of length len
RECURSIVE CutsUpTo(_, _)
CutsUpTo(len, n) ==
    IF n = 0 THEN {{}}
    ELSE LET R == CutsUpTo(len, n - 1)
         IN  R \cup {r \cup {c} : r \in R, c \in 0..len}

CutSets(text) == CutsUpTo(Len(text), MaxCuts)

SplitInputs == UNION {{SplitAt(t, c, 0) : c \in CutSets(t)} : t \in ReqTexts}

ParserInputs == SeqsUpTo(PhysLines, MaxLines) \cup SplitInputs

----------------------------------------------------------------------------
(* State that a run of the parser alone leaves untouched.                  *)

EmptyLock == [dependencies |-> <<>>, validations |-> <<>>]
NotBuilt == [built |-> FALSE, doc |-> <<>>, from |-> <<>>]
NoFile == [exists |-> FALSE, content |-> <<>>]

ParseInit ==
    /\ lines \in ParserInputs
    /\ idx = 0
    /\ curr = <<>>
    /\ parts = <<>>
    /\ emitted = <<>>
    /\ locals = NoLocals
    /\ candidates = <<>>
    /\ pc = "lines"
    /\ err = "none"
    /\ lock = EmptyLock
    /\ bi = 0
    /\ first = NotBuilt
    /\ rc = 0
    /\ disk = NoFile
    /\ prior = NoFile
    /\ written = 0

----------------------------------------------------------------------------
(* The generators, one step per physical line and one per logical line.    *)

\* lines 41-49: a blank physical line is skipped
SkipBlank ==
    /\ pc = "lines"
    /\ idx < Len(lines)
    /\ StripLine(lines[idx + 1]).skip
    /\ idx' = idx + 1
    /\ UNCHANGED <<lines, curr, parts, emitted, locals, candidates, pc, err>>
    /\ UNCHANGED <<buildVars, mainVars>>

\* lines 45-51: a line ending in a backslash is appended and the loop goes on
Continue ==
    /\ pc = "lines"
    /\ idx < Len(lines)
    /\ LET l == StripLine(lines[idx + 1])
       IN  /\ ~l.skip
           /\ l.cont
           /\ curr' = curr \o l.text
           /\ parts' = Append(parts, idx + 1)
    /\ idx' = idx + 1
    /\ UNCHANGED <<lines, emitted, locals, candidates, pc, err>>
    /\ UNCHANGED <<buildVars, mainVars>>

\* lines 50-54: the line ends a logical line that is not let out
Discard ==
    /\ pc = "lines"
    /\ idx < Len(lines)
    /\ LET l == StripLine(lines[idx + 1])
       IN  /\ ~l.skip
           /\ ~l.cont
           /\ ~Emittable(curr \o l.text)
    /\ curr' = <<>>
    /\ parts' = <<>>
    /\ idx' = idx + 1
    /\ UNCHANGED <<lines, emitted, locals, candidates, pc, err>>
    /\ UNCHANGED <<buildVars, mainVars>>

\* lines 50-53: the line ends a logical line, which is yielded to line 66
Yield ==
    /\ pc = "lines"
    /\ idx < Len(lines)
    /\ LET l == StripLine(lines[idx + 1])
       IN  /\ ~l.skip
           /\ ~l.cont
           /\ Emittable(curr \o l.text)
           /\ curr' = curr \o l.text
           /\ parts' = Append(parts, idx + 1)
           /\ emitted' = Append(emitted, [text |-> curr \o l.text,
                                          parts |-> Append(parts, idx + 1)])
    /\ idx' = idx + 1
    /\ pc' = "candidate"
    /\ UNCHANGED <<lines, locals, candidates, err>>
    /\ UNCHANGED <<buildVars, mainVars>>

\* lines 67-85 succeed: the Candidate is yielded; the assembler resumes at line 54
YieldCandidate ==
    /\ pc = "candidate"
    /\ LET r == ParseLine(curr, locals)
       IN  /\ r.err = "none"
           /\ candidates' = Append(candidates, r.cand)
           /\ locals' = r.locals
    /\ curr' = <<>>
    /\ parts' = <<>>
    /\ pc' = "lines"
    /\ UNCHANGED <<lines, idx, emitted, err>>
    /\ UNCHANGED <<buildVars, mainVars>>

\* lines 67-85 raise: the exception leaves _iter_candidates
RaiseInLine ==
    /\ pc = "candidate"
    /\ LET r == ParseLine(curr, locals)
       IN  /\ r.err # "none"
           /\ err' = r.err
           /\ locals' = r.locals
    /\ pc' = "raised"
    /\ UNCHANGED <<lines, idx, curr, parts, emitted, candidates>>
    /\ UNCHANGED <<buildVars, mainVars>>

\* line 41: the input is exhausted; an unterminated accumulator is dropped
Exhausted ==
    /\ pc = "lines"
    /\ idx = Len(lines)
    /\ pc' = "exhausted"
    /\ UNCHANGED <<lines, idx, curr, parts, emitted, locals, candidates, err>>
    /\ UNCHANGED <<buildVars, mainVars>>

ParseNext ==
    \/ SkipBlank
    \/ Continue
    \/ Discard
    \/ Yield
    \/ YieldCandidate
    \/ RaiseInLine
    \/ Exhausted

SpecParse == ParseInit /\ [][ParseNext]_vars

----------------------------------------------------------------------------
(* Claims about the parser, checked under SpecParse.                       *)

Finished == pc \in {"exhausted", "raised"}

\* the logical line has a `via` comment (lines 69, 81, 82)
HasVia(raw_line) == StartsWith(LStrip(Partition(raw_line, <<CommentMark>>)[2]), Via)

\* the code part of the logical line holds no name/version token
NoNameToken(raw_line) ==
    LET ps == SplitWs(Partition(raw_line, <<CommentMark>>)[1])
    IN  \A i \in 1..Len(ps) : StartsWith(ps[i], HashOption)

\* C3: a logical line that has no `via` comment yields a Candidate whose
\* parent set is empty, wherever the line stands in the input: it is not
\* refused for want of parents, and it does not take over the parents of an
\* earlier line.
C3_NoViaEmptyParents ==
    /\ err # "UnboundLocalError"
    /\ \A k \in 1..Len(candidates) :
          ~HasVia(emitted[k].text) => candidates[k].parents = {}

\* C4: a logical line without a name/version token makes _iter_candidates
\* fail on that line: it is the last logical line taken, no Candidate is
\* yielded for it, and none for any later line.
C4_NoNameTokenFails ==
    \A k \in 1..Len(emitted) :
        NoNameToken(emitted[k].text) =>
            /\ k = Len(emitted)
            /\ Len(candidates) = k - 1
            /\ pc \in {"candidate", "raised"}

C4_Witness ==
    /\ pc = "raised"
    /\ err = "AssertionError"
    /\ NoNameToken(emitted[Len(emitted)].text)
    /\ Len(candidates) >= 1
    /\ locals.name.bound
    /\ idx < Len(lines)

\* the input is one requirement broken by continuation markers
IsContinuationSplit(ls) ==
    /\ Len(ls) >= 1
    /\ \A i \in 1..(Len(ls) - 1) : EndsWith(ls[i], Backslash)
    /\ ~EndsWith(Strip(ls[Len(ls)]), Backslash)

\* the i-th piece of the broken text: the line without its marker
Piece(ls, i) == IF i < Len(ls) THEN SubSeq(ls[i], 1, Len(ls[i]) - 1) ELSE ls[i]

RECURSIVE JoinedContent(_)
JoinedContent(ls) ==
    IF Len(ls) = 1 THEN ls[1]
    ELSE Piece(ls, 1) \o JoinedContent(Tail(ls))

\* what _iter_candidates produces for one physical line given alone
OneLineOutcome(text) ==
    LET l == StripLine(text)
        r == ParseLine(l.text, NoLocals)
    IN  IF l.skip \/ l.cont \/ ~Emittable(l.text)
        THEN [candidates |-> <<>>, err |-> "none"]
        ELSE IF r.err = "none"
        THEN [candidates |-> <<r.cand>>, err |-> "none"]
        ELSE [candidates |-> <<>>, err |-> r.err]

SameAsOneLine ==
    [candidates |-> candidates, err |-> err] = OneLineOutcome(JoinedContent(lines))

\* C5 as stated: every way of breaking a requirement across physical lines
\* gives the Candidate of the unbroken line.
C5_AnySplit ==
    (Finished /\ IsContinuationSplit(lines)) => SameAsOneLine

\* no piece begins with whitespace and the last piece is not empty
CleanSplit(ls) ==
    /\ \A i \in 1..Len(ls) : Piece(ls, i) = <<>> \/ Piece(ls, i)[1] \notin Whitespace
    /\ Piece(ls, Len(ls)) # <<>>

\* C5 amended: a requirement broken across physical lines so that no piece
\* begins with whitespace and the last piece is not empty gives the Candidate
\* (or the failure) of the unbroken line.
C5_CleanSplit ==
    (Finished /\ IsContinuationSplit(lines) /\ CleanSplit(lines)) => SameAsOneLine

C5_Witness ==
    /\ pc = "exhausted"
    /\ IsContinuationSplit(lines)
    /\ CleanSplit(lines)
    /\ Len(lines) >= 3
    /\ Len(candidates) = 1
    /\ candidates[1].hashes # <<>>
    /\ candidates[1].parents # {}

\* the physical line is a full-line comment
IsCommentLine(line) == LET l == Strip(line) IN l # <<>> /\ l[1] = CommentMark

\* C6 as stated: no full-line comment is part of an emitted logical line,
\* and no emitted logical line is empty or begins with the comment mark.
C6_CommentsNeverEmitted ==
    \A k \in 1..Len(emitted) :
        /\ \A i \in 1..Len(emitted[k].parts) : ~IsCommentLine(lines[emitted[k].parts[i]])
        /\ emitted[k].text # <<>>
        /\ emitted[k].text[1] # CommentMark

\* C6 amended: a full-line comment is part of an emitted logical line only
\* when it continues non-empty text of backslash-continued lines before it,
\* and no emitted logical line is empty or begins with the comment mark.
C6_CommentsOnlyContinued ==
    \A k \in 1..Len(emitted) :
        /\ \A i \in 1..Len(emitted[k].parts) :
              IsCommentLine(lines[emitted[k].parts[i]]) =>
                  \E j \in 1..(i - 1) : StripLine(lines[emitted[k].parts[j]]).text # <<>>
        /\ emitted[k].text # <<>>
        /\ emitted[k].text[1] # CommentMark

\* a comment that began a logical line was dropped, and a later line emitted
C6_Witness ==
    /\ Len(emitted) >= 1
    /\ \E j \in 1..idx :
          /\ IsCommentLine(lines[j])
          /\ \A k \in 1..Len(emitted) : \A i \in 1..Len(emitted[k].parts) :
                emitted[k].parts[i] # j
    /\ \E k \in 1..Len(emitted) : \E i \in 1..Len(emitted[k].parts) :
          IsCommentLine(lines[emitted[k].parts[i]])

----------------------------------------------------------------------------
(* Python dicts keep insertion order: a dict is a sequence of entries      *)
(* [k, v] with distinct keys.                                              *)

Keys(d) == {d[i].k : i \in 1..Len(d)}

Has(d, k) == k \in Keys(d)

Get(d, k) == d[CHOOSE i \in 1..Len(d) : d[i].k = k].v

\* d[k] = v: an existing key keeps its place
Put(d, k, v) ==
    IF Has(d, k)
    THEN [i \in 1..Len(d) |-> IF d[i].k = k THEN [k |-> k, v |-> v] ELSE d[i]]
    ELSE Append(d, [k |-> k, v |-> v])

----------------------------------------------------------------------------
(* _build_lock.                                                            *)

PYPI == <<"h", "t", "t", "p", "s", ":", "/", "/", "p", "y", "p", "i", ".", "o", "r", "g", "/", "s", "i", "m", "p", "l", "e">>

\* the hashes of the first candidate of a name kept (dict.setdefault)
SetValidationsOnce(d, key, hashes) ==
    IF Has(d, key) THEN d
    ELSE Put(d, key, [i \in 1..Len(hashes) |-> HashStr(hashes[i])])

\* line 134: lock["validations"][key] = [str(h) for h in candidate.hashes]
SetValidations(d, key, hashes) ==
    Put(d, key, [i \in 1..Len(hashes) |-> HashStr(hashes[i])])

\* lines 125-134: the identity pass for one candidate
FillDistribution(l, candidate) ==
    LET key == canonicalize_name(candidate.name)
    IN  [dependencies |->
             Put(l.dependencies, key,
                 [python |-> [name |-> candidate.name,
                              version |-> VersionStr(candidate.version),
                              source |-> "pypi"],
                  dependencies |-> <<>>]),
         validations |-> SetValidations(l.validations, key, candidate.hashes)]

\* the edge put under the child instead of the parent
AddEdgeReversed(deps, parent, key) ==
    LET d == IF Has(deps, key) THEN deps
             ELSE Put(deps, key, [dependencies |-> <<>>])
        node == Get(d, key)
    IN  Put(d, key, [node EXCEPT !.dependencies = Put(@, parent, "null")])

\* the edge put without the parent being made first: a parent that is no
\* candidate gets no node
AddEdgeNoSynthesis(deps, parent, key) ==
    IF Has(deps, parent)
    THEN Put(deps, parent,
             [Get(deps, parent) EXCEPT !.dependencies = Put(@, key, "null")])
    ELSE deps

\* lines 140-142: one parent of one candidate
AddEdge(deps, parent, key) ==
    LET d == IF Has(deps, parent) THEN deps
             ELSE Put(deps, parent, [dependencies |-> <<>>])
        node == Get(d, parent)
    IN  Put(d, parent, [node EXCEPT !.dependencies = Put(@, key, "null")])

\* line 139: the loop over the parents, in the order the set gives them
RECURSIVE AddEdges(_, _, _)
AddEdges(deps, order, key) ==
    IF order = <<>> THEN deps
    ELSE AddEdges(AddEdge(deps, Head(order), key), Tail(order), key)

\* the orders in which a set can be iterated
RECURSIVE Orders(_)
Orders(S) ==
    IF S = {} THEN {<<>>}
    ELSE UNION {{<<x>> \o o : o \in Orders(S \ {x})} : x \in S}

----------------------------------------------------------------------------
(* json.dump(data, f, sort_keys=True): the document as the sequence of its *)
(* entries, keys in code point order.                                      *)

CodePoint(c) ==
    CASE c = " " -> 32
      [] c = "-" -> 45
      [] c = "." -> 46
      [] c = "0" -> 48
      [] c = "1" -> 49
      [] c = "2" -> 50
      [] c = "A" -> 65
      [] c = "B" -> 66
      [] c = "_" -> 95
      [] c = "a" -> 97
      [] c = "b" -> 98
      [] c = "c" -> 99
      [] c = "q" -> 113

RECURSIVE StrLess(_, _)
StrLess(a, b) ==
    IF a = <<>> THEN b # <<>>
    ELSE IF b = <<>> THEN FALSE
    ELSE IF Head(a) = Head(b) THEN StrLess(Tail(a), Tail(b))
    ELSE CodePoint(Head(a)) < CodePoint(Head(b))

\* the keys as the dict holds them
InsertionOrder(d) == [i \in 1..Len(d) |-> d[i].k]

\* sort_keys=True
RECURSIVE Sorted(_)
Sorted(S) ==
    IF S = {} THEN <<>>
    ELSE LET m == CHOOSE x \in S : \A y \in S \ {x} : StrLess(x, y)
         IN  <<m>> \o Sorted(S \ {m})

SortedKeys(d) == Sorted(Keys(d))

NoPython == [name |-> <<>>, version |-> <<>>, source |-> ""]

DependencyEntry(deps, k) ==
    LET node == Get(deps, k)
        full == "python" \in DOMAIN node
    IN  [section |-> "dependencies", key |-> k, distribution |-> full,
         python |-> IF full THEN node.python ELSE NoPython,
         items |-> SortedKeys(node.dependencies)]

SourcesEntry ==
    [section |-> "sources", key |-> <<"p", "y", "p", "i">>, distribution |-> FALSE,
     python |-> NoPython, items |-> <<<<"s", "i", "m", "p", "l", "e">>, PYPI>>]

ValidationEntry(vals, k) ==
    [section |-> "validations", key |-> k, distribution |-> FALSE,
     python |-> NoPython, items |-> Get(vals, k)]

Serialize(l) ==
    LET dk == SortedKeys(l.dependencies)
        vk == SortedKeys(l.validations)
    IN  [i \in 1..Len(dk) |-> DependencyEntry(l.dependencies, dk[i])]
        \o <<SourcesEntry>>
        \o [i \in 1..Len(vk) |-> ValidationEntry(l.validations, vk[i])]

----------------------------------------------------------------------------
(* Candidate lists given to _build_lock.                                   *)

HashSX == Hash(<<"s">>, <<"x">>)
HashTY == Hash(<<"t">>, <<"y">>)

CandidatePool == {
    Candidate(<<"a">>, <<1>>, <<HashSX, HashTY>>, {<<>>}),
    Candidate(<<"A">>, <<2>>, <<HashTY>>, {<<"b">>}),
    Candidate(<<"b">>, <<1>>, <<>>, {<<"a">>}),
    Candidate(<<"b">>, <<1>>, <<HashSX>>, {}),
    Candidate(<<"a", "_", "b">>, <<1, 0>>, <<HashTY, HashSX>>, {<<"c">>, <<>>}),
    Candidate(<<"c">>, <<2>>, <<HashSX>>, {<<"A">>, <<"b">>}) }

BuildInit ==
    /\ candidates \in SeqsUpTo(CandidatePool, MaxCands)
    /\ pc = "pass1"
    /\ lock = EmptyLock
    /\ bi = 0
    /\ first = NotBuilt
    /\ err = "none"
    /\ lines = <<>>
    /\ idx = 0
    /\ curr = <<>>
    /\ parts = <<>>
    /\ emitted = <<>>
    /\ locals = NoLocals
    /\ rc = 0
    /\ disk = NoFile
    /\ prior = NoFile
    /\ written = 0

\* lines 124-134: one iteration of the first loop
Pass1 ==
    /\ pc = "pass1"
    /\ bi < Len(candidates)
    /\ lock' = FillDistribution(lock, candidates[bi + 1])
    /\ bi' = bi + 1
    /\ UNCHANGED <<candidates, pc, err, first>>
    /\ UNCHANGED <<parseVars, mainVars>>

\* line 124: the first loop ends, the second begins
EndPass1 ==
    /\ pc = "pass1"
    /\ bi = Len(candidates)
    /\ pc' = "pass2"
    /\ bi' = 0
    /\ UNCHANGED <<candidates, lock, err, first>>
    /\ UNCHANGED <<parseVars, mainVars>>

\* lines 137-142: one iteration of the second loop
Pass2 ==
    /\ pc = "pass2"
    /\ bi < Len(candidates)
    /\ \E order \in Orders(candidates[bi + 1].parents) :
          lock' = [lock EXCEPT !.dependencies =
                      AddEdges(@, order, canonicalize_name(candidates[bi + 1].name))]
    /\ bi' = bi + 1
    /\ UNCHANGED <<candidates, pc, err, first>>
    /\ UNCHANGED <<parseVars, mainVars>>

\* line 144: return lock
Return ==
    /\ pc = "pass2"
    /\ bi = Len(candidates)
    /\ pc' = "return"
    /\ UNCHANGED <<candidates, lock, bi, err, first>>
    /\ UNCHANGED <<parseVars, mainVars>>

\* the permutations of a list
Reorderings(cs) ==
    {[i \in 1..Len(cs) |-> cs[o[i]]] : o \in Orders(1..Len(cs))}

\* _build_lock is called again, on the same candidates in some order; the
\* document of the first call is kept as json.dump writes it
BuildAgain ==
    /\ pc = "return"
    /\ first = NotBuilt
    /\ first' = [built |-> TRUE, doc |-> Serialize(lock), from |-> candidates]
    /\ candidates' \in Reorderings(candidates)
    /\ lock' = EmptyLock
    /\ bi' = 0
    /\ pc' = "pass1"
    /\ UNCHANGED err
    /\ UNCHANGED <<parseVars, mainVars>>

BuildNext ==
    \/ Pass1
    \/ EndPass1
    \/ Pass2
    \/ Return
    \/ BuildAgain

SpecBuild == BuildInit /\ [][BuildNext]_vars

----------------------------------------------------------------------------
(* Claims about _build_lock, checked under SpecBuild.                      *)

Returned == pc = "return"

CanonicalNames(cs) == {canonicalize_name(cs[i].name) : i \in 1..Len(cs)}

AllParents(cs) == UNION {cs[i].parents : i \in 1..Len(cs)}

\* C1: graph closure.  Every parent name of every Candidate, the empty
\* sentinel included, is a key of `dependencies` in the returned document;
\* a parent that is the canonical name of no Candidate has the bare node,
\* without distribution data, and no entry in `validations`.
C1_GraphClosure ==
    Returned =>
        \A p \in AllParents(candidates) :
            /\ Has(lock.dependencies, p)
            /\ (p \notin CanonicalNames(candidates) =>
                   /\ DOMAIN Get(lock.dependencies, p) = {"dependencies"}
                   /\ ~Has(lock.validations, p))

C1_Witness ==
    /\ Returned
    /\ <<>> \in AllParents(candidates)
    /\ <<"c">> \in AllParents(candidates)
    /\ \E p \in AllParents(candidates) : p \in CanonicalNames(candidates)
    /\ DOMAIN Get(lock.dependencies, <<"c">>) = {"dependencies"}

\* the validations entry is the list of "algorithm:digest" strings of the
\* candidate's hashes, in their order
HashesRecorded(c) ==
    LET key == canonicalize_name(c.name)
    IN  /\ Has(lock.validations, key)
        /\ Len(Get(lock.validations, key)) = Len(c.hashes)
        /\ \A i \in 1..Len(c.hashes) :
              Get(lock.validations, key)[i] = c.hashes[i].alg \o <<":">> \o c.hashes[i].val

\* C2 as stated: hash fidelity for every Candidate of the list, also when
\* two Candidates share a canonical name.
C2_EveryCandidate ==
    Returned => \A i \in 1..Len(candidates) : HashesRecorded(candidates[i])

\* no later candidate of the list has the same canonical name
LastOfName(cs, i) ==
    \A j \in (i + 1)..Len(cs) :
        canonicalize_name(cs[j].name) # canonicalize_name(cs[i].name)

\* C2 amended: hash fidelity for every Candidate that is the last of the
\* list with its canonical name (a later Candidate of the same canonical
\* name replaces the hashes of an earlier one).
C2_LastCandidate ==
    Returned =>
        \A i \in 1..Len(candidates) :
            LastOfName(candidates, i) => HashesRecorded(candidates[i])

C2_Witness ==
    /\ Returned
    /\ \E i \in 1..Len(candidates) :
          /\ ~LastOfName(candidates, i)
          /\ ~HashesRecorded(candidates[i])
    /\ \E i \in 1..Len(candidates) :
          /\ LastOfName(candidates, i)
          /\ Len(candidates[i].hashes) = 2
          /\ HashesRecorded(candidates[i])

Edges(c) == {<<p, canonicalize_name(c.name)>> : p \in c.parents}

NoSharedEdges(cs) ==
    \A i \in 1..Len(cs) : \A j \in 1..Len(cs) :
        i # j => Edges(cs[i]) \cap Edges(cs[j]) = {}

DistinctNames(cs) ==
    \A i \in 1..Len(cs) : \A j \in 1..Len(cs) :
        i # j => canonicalize_name(cs[i].name) # canonicalize_name(cs[j].name)

BuiltTwice == Returned /\ first.built

\* C7 as stated: the second build gives the serialized document of the
\* first when the list is the same, and when it is a reordering of a list
\* whose candidates share no edges.
C7_ReorderNoSharedEdges ==
    (BuiltTwice /\ (candidates = first.from \/ NoSharedEdges(candidates)))
        => Serialize(lock) = first.doc

\* C7 amended: the second build gives the serialized document of the first
\* when the list is the same, and when it is a reordering of a list no two
\* candidates of which have the same canonical name.
C7_ReorderDistinctNames ==
    (BuiltTwice /\ (candidates = first.from \/ DistinctNames(candidates)))
        => Serialize(lock) = first.doc

\* a reordered list of three distinct names with a synthesized parent, the
\* nodes of the dict standing in another order than the sorted one
C7_Witness ==
    /\ BuiltTwice
    /\ candidates # first.from
    /\ DistinctNames(candidates)
    /\ Len(candidates) = 3
    /\ InsertionOrder(lock.dependencies) # SortedKeys(lock.dependencies)

\* C10: edge exactness.  k is a key of dependencies[p].dependencies, with
\* value null, exactly when some Candidate of the list has canonical name k
\* and has p in its parent set.
C10_EdgeExactness ==
    Returned =>
        \A p \in Keys(lock.dependencies) \cup AllParents(candidates) :
            \A k \in Keys(lock.dependencies) \cup CanonicalNames(candidates) :
                (/\ Has(lock.dependencies, p)
                 /\ Has(Get(lock.dependencies, p).dependencies, k)
                 /\ Get(Get(lock.dependencies, p).dependencies, k) = "null")
                <=> (\E i \in 1..Len(candidates) :
                        /\ canonicalize_name(candidates[i].name) = k
                        /\ p \in candidates[i].parents)

\* the edge of an earlier duplicate is in the document although its hashes
\* and identity are not
C10_Witness ==
    /\ Returned
    /\ \E i \in 1..Len(candidates) : \E p \in candidates[i].parents :
          /\ ~LastOfName(candidates, i)
          /\ ~HashesRecorded(candidates[i])
          /\ \A j \in (i + 1)..Len(candidates) : p \notin candidates[j].parents
          /\ Has(Get(lock.dependencies, p).dependencies,
                 canonicalize_name(candidates[i].name))

----------------------------------------------------------------------------
(* main: _read_candidates, _build_lock, _write_lock.                       *)

NotExited == -1

\* the lock file an earlier run left: the document of one package, c==1
EarlierLock ==
    [exists |-> TRUE,
     content |-> Serialize(FillDistribution(EmptyLock,
                     Candidate(<<"c">>, <<1>>, <<HashSX>>, {})))]

Init ==
    /\ lines \in SeqsUpTo(PhysLines, MaxOut)
    /\ idx = 0
    /\ curr = <<>>
    /\ parts = <<>>
    /\ emitted = <<>>
    /\ locals = NoLocals
    /\ candidates = <<>>
    /\ pc = "check_call"
    /\ err = "none"
    /\ lock = EmptyLock
    /\ bi = 0
    /\ first = NotBuilt
    /\ rc = NotExited
    /\ prior \in {NoFile, EarlierLock}
    /\ disk = prior
    /\ written = 0

\* the resolver exits non-zero and the failure is not raised: its output is
\* read all the same (subprocess.call)
ResolverFailureIgnored ==
    /\ pc = "check_call"
    /\ rc' \in {1, 2}
    /\ pc' = "lines"
    /\ UNCHANGED <<lines, idx, curr, parts, emitted, locals, candidates, err>>
    /\ UNCHANGED <<buildVars, disk, prior, written>>

\* line 105: the resolver exits non-zero, check_call raises
ResolverFails ==
    /\ pc = "check_call"
    /\ rc' \in {1, 2}
    /\ err' = "CalledProcessError"
    /\ pc' = "raised"
    /\ UNCHANGED <<lines, idx, curr, parts, emitted, locals, candidates>>
    /\ UNCHANGED <<buildVars, disk, prior, written>>

\* lines 105-108: the resolver exits with status zero; its output is opened
ResolverSucceeds ==
    /\ pc = "check_call"
    /\ rc' = 0
    /\ pc' = "lines"
    /\ UNCHANGED <<lines, idx, curr, parts, emitted, locals, candidates, err>>
    /\ UNCHANGED <<buildVars, disk, prior, written>>

\* lines 108-110, 160: list() has every Candidate; main calls _build_lock
CallBuildLock ==
    /\ pc = "exhausted"
    /\ pc' = "pass1"
    /\ lock' = EmptyLock
    /\ bi' = 0
    /\ UNCHANGED <<candidates, err, first>>
    /\ UNCHANGED <<parseVars, mainVars>>

\* lines 161, 148: main calls _write_lock; the parent directory is made
Mkdir ==
    /\ pc = "return"
    /\ pc' = "open"
    /\ UNCHANGED <<candidates, err>>
    /\ UNCHANGED <<parseVars, buildVars, mainVars>>

\* line 148: the parent directory cannot be made
MkdirFails ==
    /\ pc = "return"
    /\ err' = "OSError"
    /\ pc' = "raised"
    /\ UNCHANGED candidates
    /\ UNCHANGED <<parseVars, buildVars, mainVars>>

\* line 149: open(path, "w") creates the file or truncates it
Open ==
    /\ pc = "open"
    /\ disk' = [exists |-> TRUE, content |-> <<>>]
    /\ written' = 0
    /\ pc' = "dump"
    /\ UNCHANGED <<candidates, err, rc, prior>>
    /\ UNCHANGED <<parseVars, buildVars>>

\* line 149: the file cannot be opened
OpenFails ==
    /\ pc = "open"
    /\ err' = "OSError"
    /\ pc' = "raised"
    /\ UNCHANGED candidates
    /\ UNCHANGED <<parseVars, buildVars, mainVars>>

\* lines 150-152: json.dump hands the next entry to the file object, which
\* keeps it in its buffer or flushes all it has to the file
Dump ==
    /\ pc = "dump"
    /\ written < Len(Serialize(lock))
    /\ written' = written + 1
    /\ \/ UNCHANGED disk
       \/ disk' = [disk EXCEPT !.content = SubSeq(Serialize(lock), 1, written + 1)]
    /\ UNCHANGED <<candidates, pc, err, rc, prior>>
    /\ UNCHANGED <<parseVars, buildVars>>

\* lines 150-152: a write raises; the with block closes the file as it is
DumpFails ==
    /\ pc = "dump"
    /\ written < Len(Serialize(lock))
    /\ err' = "OSError"
    /\ pc' = "raised"
    /\ UNCHANGED candidates
    /\ UNCHANGED <<parseVars, buildVars, mainVars>>

\* line 149: the with block ends; the buffer is flushed and the file closed
Close ==
    /\ pc = "dump"
    /\ written = Len(Serialize(lock))
    /\ disk' = [disk EXCEPT !.content = Serialize(lock)]
    /\ pc' = "done"
    /\ UNCHANGED <<candidates, err, rc, prior, written>>
    /\ UNCHANGED <<parseVars, buildVars>>

Next ==
    \/ ResolverFails
    \/ ResolverSucceeds
    \/ SkipBlank
    \/ Continue
    \/ Discard
    \/ Yield
    \/ YieldCandidate
    \/ RaiseInLine
    \/ Exhausted
    \/ CallBuildLock
    \/ Pass1
    \/ EndPass1
    \/ Pass2
    \/ Return
    \/ Mkdir
    \/ MkdirFails
    \/ Open
    \/ OpenFails
    \/ Dump
    \/ DumpFails
    \/ Close

Spec == Init /\ [][Next]_vars

----------------------------------------------------------------------------
(* Claims about main, checked under Spec.                              *)

ParseErrors == {"ValueError", "InvalidVersion", "AssertionError", "UnboundLocalError"}

InBuildOrWrite == pc \in {"pass1", "pass2", "return", "open", "dump", "done"}

\* C8: fail-fast ordering.  _build_lock and the write of the lock file are
\* reached only after the resolver has exited with status zero and every
\* logical line of its output has become a Candidate; when the resolver
\* exits non-zero or a line fails to parse, the run has ended without
\* _build_lock or _write_lock and the lock file is as it was.
C8_FailFast ==
    /\ (InBuildOrWrite \/ disk # prior \/ lock # EmptyLock \/ err = "OSError") =>
          /\ rc = 0
          /\ idx = Len(lines)
          /\ Len(candidates) = Len(emitted)
    /\ ((rc \notin {0, NotExited} \/ err \in ParseErrors) =>
          /\ pc = "raised"
          /\ lock = EmptyLock
          /\ written = 0
          /\ disk = prior)

\* a line failed after an earlier one had been parsed; the earlier lock
\* file is untouched
C8_Witness ==
    /\ pc = "raised"
    /\ err \in ParseErrors
    /\ Len(candidates) >= 1
    /\ prior = EarlierLock
    /\ disk = prior

\* C9: atomic write.  At every point of a run that found a lock file in
\* place, a failed write included, the file holds the complete prior content
\* or the complete new document, never an empty or partly written one.
C9_AtomicWrite ==
    prior.exists =>
        \/ disk = prior
        \/ /\ pc \in {"dump", "done", "raised"}
           /\ disk = [exists |-> TRUE, content |-> Serialize(lock)]

====
